---- MODULE Spec2Model ----
(***************************************************************************)
(* Model of services/v1/video/split.py: time_to_seconds and split_video.   *)
(* One run of split_video is a process; the runs share the remote manifest *)
(* store and the local storage directory.  Times are whole seconds.        *)
(***************************************************************************)
EXTENDS Integers, Sequences, FiniteSets, TLC

VARIABLES
    pc,              \* position of each run in split_video
    video_url,       \* argument video_url of each run
    splits,          \* argument splits of each run
    remote,          \* cloud storage: manifest URL -> JSON document
    files,           \* local storage: path -> content, for the paths that exist
    video_path,      \* local video_path
    video_splits,    \* local video_splits
    input_filename,  \* local input_filename
    temp_files,      \* local temp_files
    file_duration,   \* local file_duration
    valid_splits,    \* local valid_splits
    index,           \* position of the processing loop in valid_splits
    loaded,          \* history: the document read and video_path/video_splits at line 126
    encoded,         \* history: encoder invocations of each run, in order
    segUploads,      \* history: segment files a run uploaded, in order
    manUploads,      \* history: manifests a run uploaded, in order
    wrote,           \* history: local paths a run wrote
    removed,         \* history: local paths a run deleted
    outcome          \* what the run gave its caller

vars == <<pc, video_url, splits, remote, files, video_path, video_splits,
          input_filename, temp_files, file_duration, valid_splits, index, loaded, encoded, segUploads, manUploads, wrote, removed, outcome>>

----------------------------------------------------------------------------
(* Bounds *)

MaxSplits == 2       \* longest request list
MaxPrior == 2        \* most entries in the manifest found at the start
FileDuration == 10   \* duration ffprobe reports for the source, in seconds

FallbackDuration == 86400

Jobs == {"j1", "j2"}
PriorJob == "j0"

None == [none |-> TRUE]

----------------------------------------------------------------------------
(* Time strings: sequences of characters *)

Digits == {"0", "1", "2", "3", "4", "5", "6", "7", "8", "9"}

DigitVal(c) ==
    CASE c = "0" -> 0 [] c = "1" -> 1 [] c = "2" -> 2 [] c = "3" -> 3
      [] c = "4" -> 4 [] c = "5" -> 5 [] c = "6" -> 6 [] c = "7" -> 7
      [] c = "8" -> 8 [] c = "9" -> 9

RECURSIVE DigitsVal(_)
DigitsVal(s) ==
    IF s = <<>> THEN 0
    ELSE 10 * DigitsVal(SubSeq(s, 1, Len(s) - 1)) + DigitVal(s[Len(s)])

AllDigits(s) == Len(s) > 0 /\ \A k \in 1..Len(s) : s[k] \in Digits

\* int(x) / float(x) accept an optional sign followed by digits
IsNumber(s) ==
    /\ Len(s) > 0
    /\ IF s[1] = "-" THEN AllDigits(Tail(s)) ELSE AllDigits(s)

NumberVal(s) == IF s[1] = "-" THEN 0 - DigitsVal(Tail(s)) ELSE DigitsVal(s)

\* str.split(':')
RECURSIVE SplitColon(_)
SplitColon(s) ==
    IF \A k \in 1..Len(s) : s[k] # ":" THEN <<s>>
    ELSE LET k == CHOOSE k \in 1..Len(s) :
                     s[k] = ":" /\ \A m \in 1..(k - 1) : s[m] # ":"
         IN  <<SubSeq(s, 1, k - 1)>> \o SplitColon(SubSeq(s, k + 1, Len(s)))

ValueError == [ok |-> FALSE, val |-> 0]
Seconds(n) == [ok |-> TRUE, val |-> n]

time_to_seconds(time_str) ==
    LET parts == SplitColon(time_str) IN
    IF Len(parts) = 3 THEN
        IF IsNumber(parts[1]) /\ IsNumber(parts[2]) /\ IsNumber(parts[3])
        THEN Seconds(NumberVal(parts[1]) * 3600 + NumberVal(parts[2]) * 60
                     + NumberVal(parts[3]))
        ELSE ValueError
    ELSE IF Len(parts) = 2 THEN
        IF IsNumber(parts[1]) /\ IsNumber(parts[2])
        THEN Seconds(NumberVal(parts[1]) * 60 + NumberVal(parts[2]))
        ELSE ValueError
    ELSE
        IF IsNumber(time_str) THEN Seconds(NumberVal(time_str)) ELSE ValueError

----------------------------------------------------------------------------
(* Requests *)

Req(s, e) == [start |-> s, end |-> e]

ReqPlain     == Req(<<"0">>, <<"5">>)
ReqSpelled   == Req(<<"0", ":", "0", "0">>, <<"0", ":", "0", "0", ":", "0", "5">>)
ReqClamped   == Req(<<"-", "5">>, <<"2", "0">>)
ReqInverted  == Req(<<"5">>, <<"0">>)
ReqBadStart  == Req(<<"a">>, <<"5">>)
ReqBadEnd    == Req(<<"0">>, <<"1", ":", "2", ":", "3", ":", "4">>)
ReqBeyond    == Req(<<"2", "0">>, <<"3", "0">>)
ReqNegative  == Req(<<"-", "5">>, <<"-", "1">>)

SplitReqs == {ReqPlain, ReqSpelled, ReqClamped, ReqInverted, ReqBadStart,
              ReqBadEnd, ReqBeyond, ReqNegative}

SeqsUpTo(S, n) == UNION {[1..k -> S] : k \in 0..n}

SplitLists == SeqsUpTo(SplitReqs, MaxSplits)

----------------------------------------------------------------------------
(* Validation of the requested splits, lines 160-183 *)

\* the loop body without the check of line 180
ValidSplit_NoRecheck(i, split, duration) ==
    LET s == time_to_seconds(split.start) IN
    IF ~s.ok THEN <<>>
    ELSE LET e == time_to_seconds(split.end) IN
    IF ~e.ok THEN <<>>
    ELSE IF s.val >= e.val THEN <<>>
    ELSE <<[split_index |-> i,
            start_seconds |-> IF s.val < 0 THEN 0 ELSE s.val,
            end_seconds |-> IF e.val > duration THEN duration ELSE e.val,
            split_data |-> split]>>

\* the loop body with line 175 an elif of line 171
ValidSplit_ElifClamp(i, split, duration) ==
    LET s == time_to_seconds(split.start) IN
    IF ~s.ok THEN <<>>
    ELSE LET e == time_to_seconds(split.end) IN
    IF ~e.ok THEN <<>>
    ELSE IF s.val >= e.val THEN <<>>
    ELSE LET start_seconds == IF s.val < 0 THEN 0 ELSE s.val
             end_seconds == IF s.val >= 0 /\ e.val > duration THEN duration ELSE e.val
         IN  IF start_seconds < end_seconds
             THEN <<[split_index |-> i, start_seconds |-> start_seconds,
                     end_seconds |-> end_seconds, split_data |-> split]>>
             ELSE <<>>

\* the body of the loop for one request: <<>> or one tuple
ValidSplit(i, split, duration) ==
    LET s == time_to_seconds(split.start) IN
    IF ~s.ok THEN <<>>
    ELSE LET e == time_to_seconds(split.end) IN
    IF ~e.ok THEN <<>>
    ELSE IF s.val >= e.val THEN <<>>
    ELSE LET start_seconds == IF s.val < 0 THEN 0 ELSE s.val
             end_seconds == IF e.val > duration THEN duration ELSE e.val
         IN  IF start_seconds < end_seconds
             THEN <<[split_index |-> i, start_seconds |-> start_seconds,
                     end_seconds |-> end_seconds, split_data |-> split]>>
             ELSE <<>>

\* split_index is enumerate's 0-based i
RECURSIVE ValidSplitsFrom(_, _, _)
ValidSplitsFrom(i, reqs, duration) ==
    IF i >= Len(reqs) THEN <<>>
    ELSE ValidSplit(i, reqs[i + 1], duration) \o ValidSplitsFrom(i + 1, reqs, duration)

\* the valid splits in the opposite order
RECURSIVE Reversed(_)
Reversed(s) == IF s = <<>> THEN <<>> ELSE Append(Reversed(Tail(s)), Head(s))

ValidSplits_Reversed(reqs, duration) == Reversed(ValidSplitsFrom(0, reqs, duration))

\* the first request in error ends the validation loop
ValidSplits_StopAtFirstError(reqs, duration) ==
    LET bad == {k \in 1..Len(reqs) : ValidSplit(k - 1, reqs[k], duration) = <<>>}
        upto == IF bad = {} THEN Len(reqs)
                ELSE (CHOOSE k \in bad : \A m \in bad : k <= m) - 1
    IN  ValidSplitsFrom(0, SubSeq(reqs, 1, upto), duration)

ValidSplits(reqs, duration) == ValidSplitsFrom(0, reqs, duration)

----------------------------------------------------------------------------
(* URLs, local paths, JSON documents *)

Url(stem, ext) == [stem |-> stem, ext |-> ext]

UrlA == Url("a", "mp4")
UrlB == Url("b", "mp4")
Urls == {UrlA, UrlB}

\* video_url.rsplit('.', 1)[0] + '.json'
JsonUrl(u) == Url(u.stem, "json")

\* get_filename_from_url: the last component of the URL
get_filename_from_url(u) == [name |-> u.stem, ext |-> u.ext]

NoJob == "-"
NoName == [name |-> "-", ext |-> "-"]

Path(kind, job, name, idx) == [kind |-> kind, job |-> job, name |-> name, idx |-> idx]

\* download_file(url, LOCAL_STORAGE_PATH/{job_id}_input)
DownloadPath(j, u) == Path("input", j, get_filename_from_url(u), 0)

\* LOCAL_STORAGE_PATH/{job_id}_split_{split_index+1}{ext}
OutputPath(j, split_index) == Path("split", j, NoName, split_index + 1)

\* LOCAL_STORAGE_PATH/video_json_file
TempJsonPath(u) == Path("json", NoJob, get_filename_from_url(JsonUrl(u)), 0)

\* upload_file(path): the URL of the uploaded object
CloudUrl(p) == [bucket |-> "cloud", object |-> p]

Exists(p) == p \in DOMAIN files

WriteFile(fs, p, content) ==
    [q \in DOMAIN fs \cup {p} |-> IF q = p THEN content ELSE fs[q]]

RemoveFiles(fs, ps) == [q \in DOMAIN fs \ ps |-> fs[q]]

Range(s) == {s[k] : k \in 1..Len(s)}

Media == [kind |-> "media", video_path |-> None, is_list |-> FALSE, video_splits |-> <<>>]

\* what a manifest URL serves: kind "absent" (no such object), "malformed" (not
\* JSON), "notobject" (a JSON array) or "object"; when is_list is false the value
\* under "video_splits" is not a list
Doc(kind, path, is_list, entries) ==
    [kind |-> kind, video_path |-> path, is_list |-> is_list, video_splits |-> entries]

Absent == Doc("absent", None, FALSE, <<>>)

Entry(split_index, file_url, start, end) ==
    [split_index |-> split_index, file_url |-> file_url, start |-> start, end |-> end]

\* list.sort(key=lambda x: x["split_index"]): stable
RECURSIVE InsertByIndex(_, _)
InsertByIndex(sorted, e) ==
    IF sorted = <<>> THEN <<e>>
    ELSE IF sorted[Len(sorted)].split_index <= e.split_index THEN Append(sorted, e)
    ELSE Append(InsertByIndex(SubSeq(sorted, 1, Len(sorted) - 1), e), sorted[Len(sorted)])

\* line 244 left out
SortBySplitIndex_None(s) == s

RECURSIVE SortBySplitIndex(_)
SortBySplitIndex(s) ==
    IF s = <<>> THEN <<>>
    ELSE InsertByIndex(SortBySplitIndex(SubSeq(s, 1, Len(s) - 1)), s[Len(s)])

\* the comparison with the keys crossed
is_duplicate_Crossed(split_data, entries) ==
    \E k \in 1..Len(entries) :
        split_data.start = entries[k].end /\ split_data.end = entries[k].start

\* any(split_data['start'] == vs.get('start') and split_data['end'] == vs.get('end') ...)
\* only the first entry of the list compared
is_duplicate_FirstOnly(split_data, entries) ==
    /\ entries # <<>>
    /\ split_data.start = entries[1].start
    /\ split_data.end = entries[1].end

\* start and end compared as parsed seconds
is_duplicate_BySeconds(split_data, entries) ==
    \E k \in 1..Len(entries) :
        /\ time_to_seconds(split_data.start) = time_to_seconds(entries[k].start)
        /\ time_to_seconds(split_data.end) = time_to_seconds(entries[k].end)

is_duplicate(split_data, entries) ==
    \E k \in 1..Len(entries) :
        split_data.start = entries[k].start /\ split_data.end = entries[k].end

----------------------------------------------------------------------------
(* The manifest and the files an earlier run may have left *)

EmptyPath == Path("", NoJob, NoName, 0)

\* truthiness of video_path on line 129
Truthy(p) == p # None /\ p # EmptyPath

PriorReqs == {ReqPlain, ReqClamped}

PriorPath(u) == DownloadPath(PriorJob, u)

PriorEntries ==
    {Entry(k, CloudUrl(OutputPath(PriorJob, k - 1)), r.start, r.end) :
        k \in {1, 2}, r \in PriorReqs}

PriorLists == SeqsUpTo(PriorEntries, MaxPrior)

IsSorted(entries) ==
    \A k \in 1..(Len(entries) - 1) : entries[k].split_index <= entries[k + 1].split_index

DistinctRanges(entries) ==
    \A k, m \in 1..Len(entries) :
        (entries[k].start = entries[m].start /\ entries[k].end = entries[m].end) => k = m

\* what a run of split_video leaves at the manifest URL: nothing, or lines 248-254
WrittenDocs(u) ==
    {Absent} \cup
    {Doc("object", PriorPath(u), TRUE, l) :
        l \in {x \in PriorLists : x # <<>> /\ IsSorted(x) /\ DistinctRanges(x)}}

\* any document the manifest URL may serve
AnyDocs(u) ==
    {Absent, Doc("malformed", None, FALSE, <<>>)}
    \cup {Doc("notobject", None, TRUE, l) : l \in PriorLists}
    \cup {Doc("object", p, FALSE, <<e>>) : p \in {None, EmptyPath, PriorPath(u)}, e \in PriorEntries}
    \cup {Doc("object", p, TRUE, l) : p \in {None, EmptyPath, PriorPath(u)}, l \in PriorLists}

Loaded(document, path, entries) ==
    [document |-> document, video_path |-> path, video_splits |-> entries]

\* line 92, 95: video_json_path is None
NoDocument == Doc("none", None, FALSE, <<>>)

NothingLoaded == Loaded(NoDocument, None, <<>>)

NotStarted ==
    [status |-> "running", error |-> "", video_splits |-> <<>>, input_filename |-> None]

\* one call of split_video per job in `called`, all on UrlA except as `urls` says
InitWith(docs, lists, called, urls) ==
    /\ pc \in {f \in [Jobs -> {"start", "idle"}] : \A j \in Jobs : f[j] = "start" <=> j \in called}
    /\ video_url \in {f \in [Jobs -> urls] : f["j1"] = UrlA}
    /\ splits \in [Jobs -> lists]
    /\ \A j \in Jobs \ called : splits[j] = <<>> /\ video_url[j] = UrlA
    /\ \E d \in docs :
          remote = [m \in {JsonUrl(u) : u \in Urls} |-> IF m = JsonUrl(UrlA) THEN d ELSE Absent]
    /\ \E left \in SUBSET {PriorPath(UrlA)} : files = [q \in left |-> Media]
    /\ video_path = [j \in Jobs |-> None]
    /\ video_splits = [j \in Jobs |-> <<>>]
    /\ input_filename = [j \in Jobs |-> None]
    /\ temp_files = [j \in Jobs |-> <<>>]
    /\ file_duration = [j \in Jobs |-> 0]
    /\ valid_splits = [j \in Jobs |-> <<>>]
    /\ index = [j \in Jobs |-> 0]
    /\ loaded = [j \in Jobs |-> NothingLoaded]
    /\ encoded = [j \in Jobs |-> <<>>]
    /\ segUploads = [j \in Jobs |-> <<>>]
    /\ manUploads = [j \in Jobs |-> <<>>]
    /\ wrote = [j \in Jobs |-> {}]
    /\ removed = [j \in Jobs |-> {}]
    /\ outcome = [j \in Jobs |-> NotStarted]

\* one run; the manifest URL holds what earlier runs wrote
Init == InitWith(WrittenDocs(UrlA), SplitLists, {"j1"}, {UrlA})

----------------------------------------------------------------------------
(* split_video *)

\* the returned list sorted once more
Returned_Sorted(j, entries, input) ==
    [status |-> "returned", error |-> "", video_splits |-> SortBySplitIndex(entries),
     input_filename |-> input]

Returned(j, entries, input) ==
    [status |-> "returned", error |-> "", video_splits |-> entries, input_filename |-> input]

Raised(err) ==
    [status |-> "raised", error |-> err, video_splits |-> <<>>, input_filename |-> None]

\* the files the except clause removes, lines 278-283
CleanedUp(j, fs) == ({input_filename[j]} \cup Range(temp_files[j])) \cap DOMAIN fs

\* lines 274-285: an exception inside the try block; fs is local storage at the raise
Fail(j, err, fs) ==
    /\ files' = RemoveFiles(fs, CleanedUp(j, fs))
    /\ removed' = [removed EXCEPT ![j] = @ \cup CleanedUp(j, fs)]
    /\ pc' = [pc EXCEPT ![j] = "failed"]
    /\ outcome' = [outcome EXCEPT ![j] = Raised(err)]

\* video_splits taken from the document whatever its shape
ParsedSplits_AnyShape(d) == d.video_splits

\* lines 101-125: video_path and video_splits read from the downloaded document
ParsedPath(d) == IF d.kind = "object" THEN d.video_path ELSE None

ParsedSplits(d) == IF d.kind = "object" /\ d.is_list THEN d.video_splits ELSE <<>>

\* lines 78-126
LoadManifest(j) ==
    /\ pc[j] = "start"
    /\ LET m == JsonUrl(video_url[j])
           video_json_path == DownloadPath(j, m)
       IN \E reachable \in BOOLEAN :
            IF reachable /\ remote[m].kind # "absent"
            THEN /\ files' = WriteFile(files, video_json_path, remote[m])
                 /\ wrote' = [wrote EXCEPT ![j] = @ \cup {video_json_path}]
                 /\ video_path' = [video_path EXCEPT ![j] = ParsedPath(remote[m])]
                 /\ video_splits' = [video_splits EXCEPT ![j] = ParsedSplits(remote[m])]
                 /\ loaded' = [loaded EXCEPT ![j] =
                        Loaded(remote[m], ParsedPath(remote[m]), ParsedSplits(remote[m]))]
            ELSE /\ video_path' = [video_path EXCEPT ![j] = None]
                 /\ video_splits' = [video_splits EXCEPT ![j] = <<>>]
                 /\ loaded' = [loaded EXCEPT ![j] = NothingLoaded]
                 /\ UNCHANGED <<files, wrote>>
    /\ pc' = [pc EXCEPT ![j] = "resolve"]
    /\ UNCHANGED <<video_url, splits, remote, input_filename, temp_files, file_duration,
                   valid_splits, index, encoded, segUploads, manUploads, removed, outcome>>

\* lines 128-136
ResolveInput(j) ==
    /\ pc[j] = "resolve"
    /\ IF video_path[j] = None \/ (Truthy(video_path[j]) /\ ~Exists(video_path[j]))
       THEN \E downloaded \in BOOLEAN :
              IF downloaded
              THEN /\ input_filename' = [input_filename EXCEPT ![j] = DownloadPath(j, video_url[j])]
                   /\ files' = WriteFile(files, DownloadPath(j, video_url[j]), Media)
                   /\ wrote' = [wrote EXCEPT ![j] = @ \cup {DownloadPath(j, video_url[j])}]
                   /\ pc' = [pc EXCEPT ![j] = "probe"]
                   /\ UNCHANGED outcome
              ELSE /\ pc' = [pc EXCEPT ![j] = "failed"]
                   /\ outcome' = [outcome EXCEPT ![j] = Raised("DownloadFailed")]
                   /\ UNCHANGED <<input_filename, files, wrote>>
       ELSE /\ input_filename' = [input_filename EXCEPT ![j] = video_path[j]]
            /\ pc' = [pc EXCEPT ![j] = "probe"]
            /\ UNCHANGED <<files, wrote, outcome>>
    /\ UNCHANGED <<video_url, splits, remote, video_path, video_splits, temp_files,
                   file_duration, valid_splits, index, loaded, encoded, segUploads,
                   manUploads, removed>>

\* durations line 153 or line 157 can give
ProbedDurations(j) ==
    IF Exists(input_filename[j]) THEN {FileDuration, FallbackDuration} ELSE {FallbackDuration}

\* lines 139-188
Plan(j) ==
    /\ pc[j] = "probe"
    /\ \E d \in ProbedDurations(j) :
         /\ file_duration' = [file_duration EXCEPT ![j] = d]
         /\ valid_splits' = [valid_splits EXCEPT ![j] = ValidSplits(splits[j], d)]
         /\ IF ValidSplits(splits[j], d) = <<>>
            THEN /\ Fail(j, "NoValidSegments", files)
                 /\ UNCHANGED index
            ELSE /\ pc' = [pc EXCEPT ![j] = "loop"]
                 /\ index' = [index EXCEPT ![j] = 1]
                 /\ UNCHANGED <<files, removed, outcome>>
    /\ UNCHANGED <<video_url, splits, remote, video_path, video_splits, input_filename,
                   temp_files, loaded, encoded, segUploads, manUploads, wrote>>

InLoop(j) == pc[j] = "loop" /\ index[j] <= Len(valid_splits[j])

Current(j) == valid_splits[j][index[j]]

output_filename(j) == OutputPath(j, Current(j).split_index)

temp_json_path(j) == TempJsonPath(video_url[j])

\* lines 196-202
SkipDuplicate(j) ==
    /\ InLoop(j)
    /\ is_duplicate(Current(j).split_data, video_splits[j])
    /\ index' = [index EXCEPT ![j] = @ + 1]
    /\ UNCHANGED <<pc, video_url, splits, remote, files, video_path, video_splits,
                   input_filename, temp_files, file_duration, valid_splits, loaded,
                   encoded, segUploads, manUploads, wrote, removed, outcome>>

\* lines 204-229: ffmpeg exits 0 and leaves the output file, or exits non-zero
\* having written some of it or none
Encode(j) ==
    /\ InLoop(j)
    /\ ~is_duplicate(Current(j).split_data, video_splits[j])
    /\ encoded' = [encoded EXCEPT ![j] = Append(@,
            [split_index |-> Current(j).split_index,
             start |-> Current(j).start_seconds, end |-> Current(j).end_seconds])]
    /\ \E returncode \in {0, 1}, written \in BOOLEAN :
         /\ returncode = 0 => written /\ Exists(input_filename[j])
         /\ wrote' = [wrote EXCEPT ![j] = IF written THEN @ \cup {output_filename(j)} ELSE @]
         /\ LET fs == IF written THEN WriteFile(files, output_filename(j), Media) ELSE files
            IN IF returncode # 0
               THEN Fail(j, "EncodeFailed", fs)
               ELSE /\ files' = fs
                    /\ pc' = [pc EXCEPT ![j] = "upload"]
                    /\ UNCHANGED <<removed, outcome>>
    /\ UNCHANGED <<video_url, splits, remote, video_path, video_splits, input_filename,
                   temp_files, file_duration, valid_splits, index, loaded, segUploads,
                   manUploads>>

\* the new entry appended to the list now in the store
Appended_ToRemote(j, cloud_url) ==
    LET now == remote[JsonUrl(video_url[j])]
        base == IF now.kind = "object" /\ now.is_list THEN now.video_splits
                ELSE video_splits[j]
    IN  SortBySplitIndex(Append(base,
            Entry(Current(j).split_index + 1, cloud_url,
                  Current(j).split_data.start, Current(j).split_data.end)))

\* the entry numbered by its position among the valid splits
Appended_ByPosition(j, cloud_url) ==
    SortBySplitIndex(Append(video_splits[j],
        Entry(index[j], cloud_url,
              Current(j).split_data.start, Current(j).split_data.end)))

\* lines 237-244
Appended(j, cloud_url) ==
    SortBySplitIndex(Append(video_splits[j],
        Entry(Current(j).split_index + 1, cloud_url,
              Current(j).split_data.start, Current(j).split_data.end)))

\* the document carrying only the last entry of the list
ManifestDoc_OnlyLast(j, entries) ==
    Doc("object", input_filename[j], TRUE, <<entries[Len(entries)]>>)

\* video_path set only when the loaded document had none
ManifestDoc_KeepPath(j, entries) ==
    Doc("object",
        IF loaded[j].video_path = None THEN input_filename[j] ELSE loaded[j].video_path,
        TRUE, entries)

\* lines 248-249: the document written to temp_json_path
ManifestDoc(j, entries) == Doc("object", input_filename[j], TRUE, entries)

\* lines 231-253
UploadSegment(j) ==
    /\ pc[j] = "upload"
    /\ \E uploaded \in BOOLEAN :
         IF uploaded /\ Exists(output_filename(j))
         THEN /\ segUploads' = [segUploads EXCEPT ![j] = Append(@, output_filename(j))]
              /\ video_splits' = [video_splits EXCEPT ![j] =
                                     Appended(j, CloudUrl(output_filename(j)))]
              /\ files' = WriteFile(files, temp_json_path(j),
                              ManifestDoc(j, Appended(j, CloudUrl(output_filename(j)))))
              /\ wrote' = [wrote EXCEPT ![j] = @ \cup {temp_json_path(j)}]
              /\ pc' = [pc EXCEPT ![j] = "uploadjson"]
              /\ UNCHANGED <<removed, outcome>>
         ELSE /\ Fail(j, "UploadFailed", files)
              /\ UNCHANGED <<segUploads, video_splits, wrote>>
    /\ UNCHANGED <<video_url, splits, remote, video_path, input_filename, temp_files,
                   file_duration, valid_splits, index, loaded, encoded, manUploads>>

\* the manifest upload put off: nothing is uploaded after the segment
UploadManifest_Deferred(j) ==
    /\ pc[j] = "uploadjson"
    /\ temp_files' = [temp_files EXCEPT ![j] = @ \o <<output_filename(j), temp_json_path(j)>>]
    /\ pc' = [pc EXCEPT ![j] = "remove"]
    /\ UNCHANGED <<video_url, splits, remote, files, video_path, video_splits,
                   input_filename, file_duration, valid_splits, index, loaded, encoded,
                   segUploads, manUploads, wrote, removed, outcome>>

\* lines 254-263
UploadManifest(j) ==
    /\ pc[j] = "uploadjson"
    /\ \E uploaded \in BOOLEAN :
         IF uploaded /\ Exists(temp_json_path(j))
         THEN /\ remote' = [remote EXCEPT ![JsonUrl(video_url[j])] = files[temp_json_path(j)]]
              /\ manUploads' = [manUploads EXCEPT ![j] = Append(@, files[temp_json_path(j)])]
              /\ temp_files' = [temp_files EXCEPT ![j] =
                                   @ \o <<output_filename(j), temp_json_path(j)>>]
              /\ pc' = [pc EXCEPT ![j] = "remove"]
              /\ UNCHANGED <<files, removed, outcome>>
         ELSE /\ Fail(j, "ManifestUploadFailed", files)
              /\ UNCHANGED <<remote, manUploads, temp_files>>
    /\ UNCHANGED <<video_url, splits, video_path, video_splits, input_filename,
                   file_duration, valid_splits, index, loaded, encoded, segUploads, wrote>>

\* lines 265-269
RemoveTemp(j) ==
    /\ pc[j] = "remove"
    /\ IF Exists(temp_json_path(j)) /\ Exists(output_filename(j))
       THEN /\ files' = RemoveFiles(files, {temp_json_path(j), output_filename(j)})
            /\ removed' = [removed EXCEPT ![j] = @ \cup {temp_json_path(j), output_filename(j)}]
            /\ index' = [index EXCEPT ![j] = @ + 1]
            /\ pc' = [pc EXCEPT ![j] = "loop"]
            /\ UNCHANGED outcome
       ELSE /\ Fail(j, "RemoveFailed", files)
            /\ UNCHANGED index
    /\ UNCHANGED <<video_url, splits, remote, video_path, video_splits, input_filename,
                   temp_files, file_duration, valid_splits, loaded, encoded, segUploads,
                   manUploads, wrote>>

\* lines 271-272
Return(j) ==
    /\ pc[j] = "loop"
    /\ index[j] > Len(valid_splits[j])
    /\ pc' = [pc EXCEPT ![j] = "done"]
    /\ outcome' = [outcome EXCEPT ![j] = Returned(j, video_splits[j], input_filename[j])]
    /\ UNCHANGED <<video_url, splits, remote, files, video_path, video_splits,
                   input_filename, temp_files, file_duration, valid_splits, index, loaded,
                   encoded, segUploads, manUploads, wrote, removed>>

Next ==
    \E j \in Jobs :
        \/ LoadManifest(j)
        \/ ResolveInput(j)
        \/ Plan(j)
        \/ SkipDuplicate(j)
        \/ Encode(j)
        \/ UploadSegment(j)
        \/ UploadManifest(j)
        \/ RemoveTemp(j)
        \/ Return(j)

Spec == Init /\ [][Next]_vars

\* one run; the manifest URL holds any document
AnyLists == SeqsUpTo({ReqPlain, ReqSpelled, ReqClamped, ReqInverted}, MaxSplits)

InitAny == InitWith(AnyDocs(UrlA), AnyLists, {"j1"}, {UrlA})

SpecAny == InitAny /\ [][Next]_vars

\* two runs on the same source; the manifest URL holds nothing or what one
\* earlier run wrote
TwoLists == SeqsUpTo({ReqPlain, ReqBeyond}, MaxSplits)

TwoDocs ==
    {Absent,
     Doc("object", PriorPath(UrlA), TRUE,
         <<Entry(1, CloudUrl(OutputPath(PriorJob, 0)), ReqPlain.start, ReqPlain.end)>>)}

InitTwo == InitWith(TwoDocs, TwoLists, Jobs, {UrlA})

SpecTwo == InitTwo /\ [][Next]_vars

----------------------------------------------------------------------------
(* Properties *)

Max(a, b) == IF a >= b THEN a ELSE b
Min(a, b) == IF a <= b THEN a ELSE b

\* the run got as far as validating its requests
Planned(j) ==
    \/ pc[j] \in {"loop", "upload", "uploadjson", "remove", "done"}
    \/ pc[j] = "failed" /\ outcome[j].error # "DownloadFailed"

FailedInTry(j) ==
    /\ pc[j] = "failed"
    /\ outcome[j].error \in {"NoValidSegments", "EncodeFailed", "UploadFailed",
                             "ManifestUploadFailed"}

\* C1: when split_video fails after resolving its input, the input file and every
\* segment output file and local manifest JSON copy the run wrote are gone
C1_FailureLeavesNoLocalFile ==
    \A j \in Jobs :
        FailedInTry(j) =>
            /\ ~Exists(input_filename[j])
            /\ \A p \in wrote[j] : p.kind \in {"split", "json"} => ~Exists(p)

HasEntryFor(entries, j, split_index) ==
    \E k \in 1..Len(entries) :
        /\ entries[k].split_index = split_index + 1
        /\ entries[k].file_url = CloudUrl(OutputPath(j, split_index))

\* C2: when the encoder is invoked for a segment, every segment encoded before it
\* has its file uploaded and a manifest with its entry uploaded and in the store
C2_EarlierSegmentsDurable ==
    \A j \in Jobs : \A n \in 1..Len(encoded[j]) : \A m \in 1..(n - 1) :
        /\ OutputPath(j, encoded[j][m].split_index) \in Range(segUploads[j])
        /\ \E k \in 1..Len(manUploads[j]) :
              HasEntryFor(manUploads[j][k].video_splits, j, encoded[j][m].split_index)
        /\ HasEntryFor(remote[JsonUrl(video_url[j])].video_splits, j,
                       encoded[j][m].split_index)
        /\ Len(manUploads[j]) >= n - 1

C2_Witness ==
    \E j \in Jobs : Len(encoded[j]) >= 2 /\ pc[j] = "failed" /\ outcome[j].error = "EncodeFailed"

\* validation rejects the request: unparseable, start >= end, or empty once clamped
Rejected(req, duration) ==
    LET s == time_to_seconds(req.start)
        e == time_to_seconds(req.end)
    IN  \/ ~s.ok
        \/ ~e.ok
        \/ s.val >= e.val
        \/ Max(s.val, 0) >= Min(e.val, duration)

AllRejected(j) == \A k \in 1..Len(splits[j]) : Rejected(splits[j][k], file_duration[j])

\* C3: if validation rejects every request the run fails with the no-valid-segments
\* error, having encoded nothing and uploaded nothing
C3_AllRejectedFailsFast ==
    \A j \in Jobs :
        (Planned(j) /\ AllRejected(j)) =>
            /\ pc[j] = "failed"
            /\ outcome[j].error = "NoValidSegments"
            /\ encoded[j] = <<>>
            /\ segUploads[j] = <<>>
            /\ manUploads[j] = <<>>

C3_Witness ==
    \E j \in Jobs :
        /\ Planned(j) /\ AllRejected(j)
        /\ \E k \in 1..Len(splits[j]) :
              /\ time_to_seconds(splits[j][k].start).ok
              /\ time_to_seconds(splits[j][k].end).ok
              /\ time_to_seconds(splits[j][k].start).val < time_to_seconds(splits[j][k].end).val

SameRange(a, b) == a.start = b.start /\ a.end = b.end

InLoaded(j, req) == \E e \in Range(loaded[j].video_splits) : SameRange(e, req)

\* C4: a valid request with the start and end strings of a loaded entry is never
\* encoded or uploaded, and the returned list has exactly one entry with that
\* start/end, the loaded one
C4_DuplicateNotReprocessed ==
    \A j \in Jobs : \A v \in Range(valid_splits[j]) :
        InLoaded(j, v.split_data) =>
            /\ \A n \in 1..Len(encoded[j]) : encoded[j][n].split_index # v.split_index
            /\ OutputPath(j, v.split_index) \notin Range(segUploads[j])
            /\ pc[j] = "done" =>
                 /\ Cardinality({k \in 1..Len(outcome[j].video_splits) :
                        SameRange(outcome[j].video_splits[k], v.split_data)}) = 1
                 /\ \A e \in Range(outcome[j].video_splits) :
                        SameRange(e, v.split_data) => e \in Range(loaded[j].video_splits)

C4_Witness ==
    \E j \in Jobs :
        /\ pc[j] = "done"
        /\ encoded[j] # <<>>
        /\ \E v \in Range(valid_splits[j]) : InLoaded(j, v.split_data)

Last(s) == s[Len(s)]

\* C5: a second run with the same source and requests, started against the
\* manifest a successful first run uploaded and probing the same duration, encodes
\* nothing, uploads nothing and returns the list the first run returned
C5_RerunIsIdempotent ==
    \A a, b \in Jobs :
        ( /\ a # b
          /\ pc[a] = "done"
          /\ manUploads[a] # <<>>
          /\ video_url[b] = video_url[a]
          /\ splits[b] = splits[a]
          /\ loaded[b].document = Last(manUploads[a])
          /\ Planned(b)
          /\ file_duration[b] = file_duration[a] ) =>
            /\ pc[b] # "failed"
            /\ encoded[b] = <<>>
            /\ segUploads[b] = <<>>
            /\ manUploads[b] = <<>>
            /\ pc[b] = "done" => outcome[b].video_splits = outcome[a].video_splits

C5_Witness ==
    \E a, b \in Jobs :
        /\ a # b
        /\ pc[a] = "done" /\ pc[b] = "done"
        /\ Len(manUploads[a]) >= 2
        /\ splits[b] = splits[a]
        /\ loaded[b].document = Last(manUploads[a])
        /\ file_duration[b] = file_duration[a]

\* C6: a request that parses to (s, e) is accepted exactly when s < e and
\* max(s, 0) < min(e, D), and is then encoded from max(s, 0) to min(e, D), so
\* 0 <= start < end <= D
C6_AcceptedIffNonEmptyClamped ==
    \A j \in Jobs : Planned(j) =>
        \A k \in 1..Len(splits[j]) :
            LET s == time_to_seconds(splits[j][k].start)
                e == time_to_seconds(splits[j][k].end)
                D == file_duration[j]
            IN (s.ok /\ e.ok) =>
                /\ (\E v \in Range(valid_splits[j]) : v.split_index = k - 1)
                       <=> (s.val < e.val /\ Max(s.val, 0) < Min(e.val, D))
                /\ \A v \in Range(valid_splits[j]) : v.split_index = k - 1 =>
                       v.start_seconds = Max(s.val, 0) /\ v.end_seconds = Min(e.val, D)
                /\ \A n \in 1..Len(encoded[j]) : encoded[j][n].split_index = k - 1 =>
                       /\ encoded[j][n].start = Max(s.val, 0)
                       /\ encoded[j][n].end = Min(e.val, D)
                       /\ 0 <= encoded[j][n].start
                       /\ encoded[j][n].start < encoded[j][n].end
                       /\ encoded[j][n].end <= D

C6_Witness ==
    \E j \in Jobs : \E n \in 1..Len(encoded[j]) :
        LET r == splits[j][encoded[j][n].split_index + 1] IN
        /\ time_to_seconds(r.start).val < 0
        /\ time_to_seconds(r.end).val > file_duration[j]
        /\ encoded[j][n].start = 0
        /\ encoded[j][n].end = file_duration[j]

\* the entries the run appended
AppendedEntries(j, entries) == {e \in Range(entries) : e \notin Range(loaded[j].video_splits)}

IsRequestAt(j, e) ==
    /\ e.split_index \in 1..Len(splits[j])
    /\ e.start = splits[j][e.split_index].start
    /\ e.end = splits[j][e.split_index].end

\* C7: an entry the run appends has split_index equal to the 1-based position of
\* its request in the input list, and the request's raw start and end strings
C7_IndexIsRequestPosition ==
    \A j \in Jobs :
        /\ \A e \in AppendedEntries(j, video_splits[j]) : IsRequestAt(j, e)
        /\ \A k \in 1..Len(manUploads[j]) :
              \A e \in AppendedEntries(j, manUploads[j][k].video_splits) : IsRequestAt(j, e)

C7_Witness ==
    \E j \in Jobs :
        /\ pc[j] = "done"
        /\ \E e \in AppendedEntries(j, outcome[j].video_splits) : e.split_index = 2
        /\ \A e \in AppendedEntries(j, outcome[j].video_splits) : e.split_index # 1

UploadsSorted(j) == \A k \in 1..Len(manUploads[j]) : IsSorted(manUploads[j][k].video_splits)

\* C8: whatever manifest was loaded, every manifest the run uploads and the list it
\* returns are in ascending split_index order
C8_AlwaysSorted ==
    \A j \in Jobs :
        /\ UploadsSorted(j)
        /\ pc[j] = "done" => IsSorted(outcome[j].video_splits)

\* C8 as amended: every manifest the run uploads is in ascending split_index
\* order, and so is the returned list when the run appended an entry or the
\* loaded list was in order
C8_SortedOnceAppended ==
    \A j \in Jobs :
        /\ UploadsSorted(j)
        /\ (pc[j] = "done" /\ (segUploads[j] # <<>> \/ IsSorted(loaded[j].video_splits)))
               => IsSorted(outcome[j].video_splits)

C8_Witness ==
    \E j \in Jobs :
        /\ pc[j] = "done"
        /\ ~IsSorted(loaded[j].video_splits)
        /\ manUploads[j] # <<>>

JustLoaded(j) == pc[j] = "resolve"

\* C9: after any anomaly (no document fetched, malformed JSON, JSON that is not an
\* object, video_splits that is not a list) the run goes on with video_path null
\* and video_splits empty
C9_AnomalyLoadsEmpty ==
    \A j \in Jobs :
        ( /\ JustLoaded(j)
          /\ \/ loaded[j].document.kind \in {"none", "malformed", "notobject"}
             \/ ~loaded[j].document.is_list ) =>
            video_path[j] = None /\ video_splits[j] = <<>>

\* C9 as amended: after any anomaly the run goes on with video_splits empty;
\* video_path is null except when only video_splits is not a list, where it is
\* the document's video_path
C9_AnomalyLoadsNoSplits ==
    \A j \in Jobs : JustLoaded(j) =>
        /\ loaded[j].document.kind \in {"none", "malformed", "notobject"} =>
               video_path[j] = None /\ video_splits[j] = <<>>
        /\ (loaded[j].document.kind = "object" /\ ~loaded[j].document.is_list) =>
               video_path[j] = loaded[j].document.video_path /\ video_splits[j] = <<>>

C9_Witness ==
    \E j \in Jobs :
        /\ JustLoaded(j)
        /\ loaded[j].document.kind = "object"
        /\ ~loaded[j].document.is_list
        /\ video_path[j] = PriorPath(video_url[j])

Touched(j) == wrote[j] \cup removed[j]

\* C10: no local path one run writes or deletes is written or deleted by a run
\* with another job id
C10_PathsAreJobScoped ==
    \A a, b \in Jobs : a # b => Touched(a) \cap Touched(b) = {}

\* the entries of the list that name a segment file of the run name an uploaded one
OwnEntriesUploaded(j, entries) ==
    \A e \in Range(entries) : \A i \in 0..(Len(splits[j]) - 1) :
        e.file_url = CloudUrl(OutputPath(j, i)) =>
            /\ e.split_index = i + 1
            /\ OutputPath(j, i) \in Range(segUploads[j])

\* the entries the run appended to the list name a segment file of the run
AppendedAreOwn(j, entries) ==
    \A e \in AppendedEntries(j, entries) :
        /\ e.split_index >= 1
        /\ e.file_url = CloudUrl(OutputPath(j, e.split_index - 1))

\* C11: an entry is in video_splits, in an uploaded manifest or in the returned list
\* only once its segment file's upload returned a URL; on the success path a local
\* segment file is deleted only once it is uploaded and the run has uploaded a
\* manifest with its entry
C11_UploadIsCommitPoint ==
    \A j \in Jobs :
        /\ AppendedAreOwn(j, video_splits[j]) /\ OwnEntriesUploaded(j, video_splits[j])
        /\ AppendedAreOwn(j, outcome[j].video_splits)
        /\ OwnEntriesUploaded(j, outcome[j].video_splits)
        /\ \A k \in 1..Len(manUploads[j]) : OwnEntriesUploaded(j, manUploads[j][k].video_splits)
        /\ pc[j] # "failed" =>
              \A p \in removed[j] : p.kind = "split" =>
                  /\ p \in Range(segUploads[j])
                  /\ \E k \in 1..Len(manUploads[j]) :
                        HasEntryFor(manUploads[j][k].video_splits, j, p.idx - 1)

\* C12: when a request passes validation and every request that passes is a
\* duplicate of a loaded entry, the run does not fail, encodes nothing, uploads
\* nothing and returns the loaded list unchanged
C12_AllDuplicatesSucceeds ==
    \A j \in Jobs :
        ( /\ Planned(j)
          /\ ~AllRejected(j)
          /\ \A k \in 1..Len(splits[j]) :
                ~Rejected(splits[j][k], file_duration[j]) => InLoaded(j, splits[j][k]) ) =>
            /\ pc[j] # "failed"
            /\ encoded[j] = <<>>
            /\ segUploads[j] = <<>>
            /\ manUploads[j] = <<>>
            /\ pc[j] = "done" => outcome[j].video_splits = loaded[j].video_splits

C12_Witness ==
    \E j \in Jobs :
        /\ pc[j] = "done"
        /\ ~AllRejected(j)
        /\ \A k \in 1..Len(splits[j]) :
              ~Rejected(splits[j][k], file_duration[j]) => InLoaded(j, splits[j][k])
        /\ Len(loaded[j].video_splits) >= 2

Ascending(j) ==
    \A n \in 1..(Len(encoded[j]) - 1) : encoded[j][n].split_index < encoded[j][n + 1].split_index

\* C13: the encoder invocations of a run are strictly ascending in split_index
\* (so no segment is encoded twice), and once the run has failed no further
\* encoder or upload call is made
C13_AscendingAndStopsAtFailure ==
    /\ [](\A j \in Jobs : Ascending(j))
    /\ [][\A j \in Jobs : pc[j] = "failed" =>
             /\ encoded'[j] = encoded[j]
             /\ segUploads'[j] = segUploads[j]
             /\ manUploads'[j] = manUploads[j]
             /\ pc'[j] = "failed"]_vars

C13_Witness ==
    \E j \in Jobs :
        /\ pc[j] = "failed"
        /\ outcome[j].error \in {"EncodeFailed", "UploadFailed", "ManifestUploadFailed"}
        /\ Len(encoded[j]) >= 1
        /\ Len(valid_splits[j]) > Len(encoded[j])
        /\ valid_splits[j][Len(valid_splits[j])].split_data # valid_splits[j][1].split_data

\* C14: a request in error is skipped without aborting the run: every request
\* that passes validation is planned at its position and, when the run returns,
\* has an entry in the returned list; the no-valid-segments error is raised only
\* when no request passes
C14_RequestErrorsAbsorbed ==
    \A j \in Jobs :
        Planned(j) =>
            /\ \A k \in 1..Len(splits[j]) :
                  ~Rejected(splits[j][k], file_duration[j]) =>
                      /\ \E n \in 1..Len(valid_splits[j]) :
                            /\ valid_splits[j][n].split_index = k - 1
                            /\ valid_splits[j][n].split_data = splits[j][k]
                      /\ pc[j] = "done" =>
                            \E e \in Range(outcome[j].video_splits) : SameRange(e, splits[j][k])
            /\ outcome[j].error = "NoValidSegments" => AllRejected(j)

C14_Witness ==
    \E j \in Jobs :
        /\ pc[j] = "done"
        /\ Len(splits[j]) = 2
        /\ ~time_to_seconds(splits[j][1].start).ok
        /\ Len(encoded[j]) = 1
        /\ encoded[j][1].split_index = 1
        /\ HasEntryFor(outcome[j].video_splits, j, 1)

\* the same interval in seconds
SameSeconds(a, b) ==
    /\ time_to_seconds(a.start).ok /\ time_to_seconds(a.end).ok
    /\ time_to_seconds(a.start) = time_to_seconds(b.start)
    /\ time_to_seconds(a.end) = time_to_seconds(b.end)

FirstOccurrence(j, k) == \A m \in 1..(k - 1) : ~SameRange(splits[j][m], splits[j][k])

\* C15: a valid request that denotes the interval of a loaded entry with other
\* start or end strings is not a duplicate of it: once the run has returned, the
\* request (at its first occurrence in the list) was encoded, its file uploaded
\* and its entry appended with the request's own strings
C15_DuplicateIsRawStrings ==
    \A j \in Jobs : \A k \in 1..Len(splits[j]) :
        ( /\ pc[j] = "done"
          /\ ~Rejected(splits[j][k], file_duration[j])
          /\ ~InLoaded(j, splits[j][k])
          /\ FirstOccurrence(j, k)
          /\ \E e \in Range(loaded[j].video_splits) : SameSeconds(e, splits[j][k]) ) =>
            /\ \E n \in 1..Len(encoded[j]) : encoded[j][n].split_index = k - 1
            /\ OutputPath(j, k - 1) \in Range(segUploads[j])
            /\ \E e \in Range(outcome[j].video_splits) :
                  /\ e.split_index = k
                  /\ e.file_url = CloudUrl(OutputPath(j, k - 1))
                  /\ SameRange(e, splits[j][k])

C15_Witness ==
    \E j \in Jobs : \E k \in 1..Len(splits[j]) :
        /\ pc[j] = "done"
        /\ ~InLoaded(j, splits[j][k])
        /\ \E e \in Range(loaded[j].video_splits) : SameSeconds(e, splits[j][k])
        /\ \E n \in 1..Len(encoded[j]) : encoded[j][n].split_index = k - 1
        /\ Len(outcome[j].video_splits) = Len(loaded[j].video_splits) + Len(encoded[j])

\* C16 as stated: when the loaded manifest has a non-null video_path, every
\* manifest the run uploads has that same video_path
C16_LoadedPathKept ==
    \A j \in Jobs : \A k \in 1..Len(manUploads[j]) :
        loaded[j].video_path # None => manUploads[j][k].video_path = loaded[j].video_path

\* the run wrote its manifest document in this step (line 252)
WroteManifest(j) == pc[j] = "upload" /\ pc'[j] = "uploadjson"

\* C16: every manifest document the run writes for upload has as video_path the
\* input file the run resolved: the path of its own download when it downloaded,
\* whatever the loaded video_path was, and otherwise the loaded video_path
C16_PathIsResolvedInput ==
    [][\A j \in Jobs :
          WroteManifest(j) =>
              LET d == files'[temp_json_path(j)] IN
              /\ d.video_path = input_filename[j]
              /\ IF DownloadPath(j, video_url[j]) \in wrote[j]
                 THEN d.video_path = DownloadPath(j, video_url[j])
                 ELSE d.video_path = loaded[j].video_path /\ loaded[j].video_path # None]_vars

C16_Witness ==
    \E j \in Jobs :
        /\ pc[j] = "uploadjson"
        /\ loaded[j].video_path # None
        /\ files[temp_json_path(j)].video_path = DownloadPath(j, video_url[j])
        /\ HasEntryFor(files[temp_json_path(j)].video_splits, j, 0)

\* the run has tried to download the source
Downloading(j) ==
    \/ DownloadPath(j, video_url[j]) \in wrote[j]
    \/ pc[j] = "failed" /\ outcome[j].error = "DownloadFailed"

\* run b loaded the last manifest that run a, now returned, uploaded
LoadedLastOf(a, b) ==
    /\ a # b
    /\ pc[a] = "done"
    /\ manUploads[a] # <<>>
    /\ loaded[b].document = Last(manUploads[a])
    /\ pc[b] \notin {"idle", "start", "resolve"}

\* C17: a run downloads the source exactly when the loaded video_path is null or
\* names no existing local file; and a run that loaded the last manifest of a
\* returned run which uploaded a segment does not download: it takes that run's
\* input file
C17_InputReusedAcrossRuns ==
    /\ [][\A j \in Jobs :
            (pc[j] = "resolve" /\ pc'[j] # "resolve") =>
                ( (DownloadPath(j, video_url[j]) \in wrote'[j] \/ pc'[j] = "failed")
                  <=> (loaded[j].video_path = None \/ ~Exists(loaded[j].video_path)) )]_vars
    /\ [](\A a, b \in Jobs :
            LoadedLastOf(a, b) =>
                /\ ~Downloading(b)
                /\ pc[b] # "failed" => input_filename[b] = input_filename[a])

Count(e, entries) == Cardinality({k \in 1..Len(entries) : entries[k] = e})

\* every entry of `small` is in `big`, unmodified and as many times
Contains(big, small) == \A e \in Range(small) : Count(e, big) >= Count(e, small)

\* the list before the run's k-th manifest upload
Previous(j, k) ==
    IF k = 1 THEN loaded[j].video_splits ELSE manUploads[j][k - 1].video_splits

\* C18: each manifest a run uploads contains the entries of the one it uploaded
\* before (of the loaded manifest, for the first), unmodified, and exactly one
\* entry more
C18_AppendOnlyWithinRun ==
    \A j \in Jobs : \A k \in 1..Len(manUploads[j]) :
        /\ Contains(manUploads[j][k].video_splits, Previous(j, k))
        /\ Contains(manUploads[j][k].video_splits, loaded[j].video_splits)
        /\ Len(manUploads[j][k].video_splits) = Len(Previous(j, k)) + 1

\* C19: a run never takes over entries that reached the store after it loaded the
\* manifest: its list holds loaded entries and its own, so its manifest upload
\* overwrites what another run uploaded meanwhile
C19_NoMergeWithRemote ==
    \A j \in Jobs : \A e \in Range(video_splits[j]) :
        \/ e \in Range(loaded[j].video_splits)
        \/ /\ e.split_index >= 1
           /\ e.file_url = CloudUrl(OutputPath(j, e.split_index - 1))

\* two returned runs with different requests that loaded the same manifest, and a
\* segment one of them uploaded that the manifest in the store has no entry for
C19_Witness ==
    \E a, b \in Jobs :
        /\ a # b
        /\ video_url[a] = video_url[b]
        /\ \A k \in 1..Len(splits[a]) : \A m \in 1..Len(splits[b]) :
              ~SameRange(splits[a][k], splits[b][m])
        /\ pc[a] = "done" /\ pc[b] = "done"
        /\ outcome[a].status = "returned" /\ outcome[b].status = "returned"
        /\ loaded[a].document = loaded[b].document
        /\ segUploads[a] # <<>> /\ segUploads[b] # <<>>
        /\ \E p \in Range(segUploads[a]) :
              \A e \in Range(remote[JsonUrl(video_url[a])].video_splits) :
                  e.file_url # CloudUrl(p)

\* C20: when no two loaded entries have the same start and end strings, no list
\* the run holds, uploads or returns has two such entries
C20_RangesStayDistinct ==
    \A j \in Jobs :
        DistinctRanges(loaded[j].video_splits) =>
            /\ DistinctRanges(video_splits[j])
            /\ \A k \in 1..Len(manUploads[j]) : DistinctRanges(manUploads[j][k].video_splits)
            /\ DistinctRanges(outcome[j].video_splits)

C20_Witness ==
    \E j \in Jobs :
        /\ pc[j] = "done"
        /\ Len(splits[j]) = 2
        /\ SameRange(splits[j][1], splits[j][2])
        /\ Len(valid_splits[j]) = 2
        /\ Len(encoded[j]) = 1
        /\ loaded[j].video_splits # <<>>
        /\ Len(outcome[j].video_splits) = Len(loaded[j].video_splits) + 1

====
